---------------------------- MODULE Spec2Model ----------------------------
(***************************************************************************)
(* A model of sudoku.c: the multi-threaded search for all the solutions of *)
(* a 9x9 sudoku puzzle.  The driver (main) registers the SIGINT handler,   *)
(* builds the sibling table, reads the puzzle and calls find_solutions     *)
(* once; find_solutions either hands its grid to a new thread (while fewer *)
(* than max_threads are active) or searches it in the calling context:     *)
(* forced singles to a fixpoint, then one recursive call per candidate of  *)
(* the unset cell that has the fewest candidates.                          *)
(*                                                                         *)
(* Thread 0 is the driver, threads 1, 2, ... are the created workers in    *)
(* the order of their creation.  Every thread owns a call stack of         *)
(* find_solutions frames; a frame holds the by-value copy of the grid and  *)
(* the locals of the call.  One action is one step of one thread that      *)
(* makes at most one access to shared memory.                              *)
(*                                                                         *)
(* malloc and pthread_create are taken to succeed.  The plain (non-atomic) *)
(* reads of num_threads, total_solutions, ctrl_c and find_solutions_done   *)
(* read the value the variable holds at that step.  The unsigned counters  *)
(* are integers here: a value below 0 stands for the value the counter     *)
(* wraps to, and the model agrees with the program up to the first step    *)
(* that makes a counter negative.                                          *)
(***************************************************************************)
EXTENDS Integers, Sequences, FiniteSets, TLC

(***************************************************************************)
(* Program constants                                                       *)
(***************************************************************************)
NO_VALUE == 255

MAX_SOLUTIONS_INFINITE == 0

NumCells == 81

NumSiblings == 20

AllValuesMask == 1022

NoBestNumPv == 10

Cells == 0 .. (NumCells - 1)

Values == 1 .. 9

(***************************************************************************)
(* Bounds of the model: the largest max_threads, print_interval and        *)
(* max_solutions arguments that are tried.                                 *)
(***************************************************************************)
MaxThreadsArg == 3

MaxPrintIntervalArg == 2

MaxSolutionsArg == 2

ROW(locidx) == locidx \div 9

COL(locidx) == locidx % 9

GRID_NUM(locidx) == (ROW(locidx) \div 3) * 3 + (COL(locidx) \div 3)

\* pv & (1 << v) on the candidate bitmask
HasBit(pv, v) == (pv \div (2 ^ v)) % 2 = 1

\* pv & ~(1 << v), used only when the bit is set
ClearBit(pv, v) == pv - (2 ^ v)

(***************************************************************************)
(* initialize: siblings[locidx] lists, in increasing li, the cells that    *)
(* share the row, the column or the 3x3 grid of locidx; pv2val maps the    *)
(* one-bit mask 1<<value to value (all other entries stay 0).              *)
(***************************************************************************)
\* the members of a set of cells in increasing order, as the loops over
\* li and locidx meet them
InOrder(S) ==
    [k \in 1 .. Cardinality(S) |->
       CHOOSE x \in S : Cardinality({y \in S : y < x}) = k - 1]

\* IsSibling without the test of the 3x3 grid
IsSiblingNoGrid(locidx, li) ==
    /\ li # locidx
    /\ \/ ROW(li) = ROW(locidx)
       \/ COL(li) = COL(locidx)

IsSibling(locidx, li) ==
    /\ li # locidx
    /\ \/ ROW(li) = ROW(locidx)
       \/ COL(li) = COL(locidx)
       \/ GRID_NUM(li) = GRID_NUM(locidx)

siblings == [locidx \in Cells |-> InOrder({li \in Cells : IsSibling(locidx, li)})]

\* max_sib when the loop over li has ended for locidx
max_sib(locidx) == Len(siblings[locidx])

pv2val == [m \in 0 .. 512 |->
             IF \E v \in Values : m = 2 ^ v
             THEN CHOOSE v \in Values : m = 2 ^ v
             ELSE 0]

(***************************************************************************)
(* possible_values: start from all nine values and remove the value of     *)
(* every set sibling; returns the mask and the number of bits left.        *)
(* sibs[i] of the code is siblings[locidx][i+1] here (sequences start at   *)
(* 1).                                                                     *)
(***************************************************************************)
\* PossibleValuesScan with the loop ending one sibling early
RECURSIVE PossibleValuesScanShort(_, _, _, _, _)
PossibleValuesScanShort(value, sibs, i, pv, num_pv) ==
    IF i >= NumSiblings - 1 THEN [pv |-> pv, num_pv |-> num_pv]
    ELSE LET sib_val == value[sibs[i + 1]]
         IN  IF sib_val # NO_VALUE /\ HasBit(pv, sib_val)
             THEN PossibleValuesScanShort(value, sibs, i + 1,
                                          ClearBit(pv, sib_val), num_pv - 1)
             ELSE PossibleValuesScanShort(value, sibs, i + 1, pv, num_pv)

RECURSIVE PossibleValuesScan(_, _, _, _, _)
PossibleValuesScan(value, sibs, i, pv, num_pv) ==
    IF i >= NumSiblings THEN [pv |-> pv, num_pv |-> num_pv]
    ELSE LET sib_val == value[sibs[i + 1]]
         IN  IF sib_val # NO_VALUE /\ HasBit(pv, sib_val)
             THEN PossibleValuesScan(value, sibs, i + 1,
                                     ClearBit(pv, sib_val), num_pv - 1)
             ELSE PossibleValuesScan(value, sibs, i + 1, pv, num_pv)

possible_values(p, locidx) ==
    PossibleValuesScan(p.value, siblings[locidx], 0, AllValuesMask, 9)

(***************************************************************************)
(* The propagation loop of find_solutions (the do ... while).  A scan      *)
(* state is the grid p, the three best_* locals, values_have_been_set and  *)
(* returned (the return of the num_pv == 0 case).  best_locidx and best_pv *)
(* keep their value from one pass to the next; only best_num_pv is reset.  *)
(***************************************************************************)
\* one pass of the for loop over locidx.  The cells that hold a value are
\* skipped (continue), so the pass visits todo, the cells that were unset
\* when it began, in increasing order; k is the position in todo.
\* PropagateScan that never records a best cell
RECURSIVE PropagateScanNoBest(_, _, _)
PropagateScanNoBest(s, todo, k) ==
    IF k > Len(todo) THEN s
    ELSE LET locidx == todo[k]
             r == possible_values(s.p, locidx)
         IN  IF r.num_pv = 0 THEN [s EXCEPT !.returned = TRUE]
             ELSE IF r.num_pv = 1
             THEN PropagateScanNoBest(
                    [s EXCEPT !.p.value[locidx] = pv2val[r.pv],
                              !.p.num_no_value = @ - 1,
                              !.values_have_been_set = TRUE],
                    todo, k + 1)
             ELSE PropagateScanNoBest(s, todo, k + 1)

\* PropagateScan with num_pv <= best_num_pv: the last cell seen wins a tie
RECURSIVE PropagateScanLastWins(_, _, _)
PropagateScanLastWins(s, todo, k) ==
    IF k > Len(todo) THEN s
    ELSE LET locidx == todo[k]
             r == possible_values(s.p, locidx)
         IN  IF r.num_pv = 0 THEN [s EXCEPT !.returned = TRUE]
             ELSE IF r.num_pv = 1
             THEN PropagateScanLastWins(
                    [s EXCEPT !.p.value[locidx] = pv2val[r.pv],
                              !.p.num_no_value = @ - 1,
                              !.values_have_been_set = TRUE],
                    todo, k + 1)
             ELSE IF r.num_pv <= s.best_num_pv
             THEN PropagateScanLastWins(
                    [s EXCEPT !.best_num_pv = r.num_pv,
                              !.best_locidx = locidx,
                              !.best_pv = r.pv],
                    todo, k + 1)
             ELSE PropagateScanLastWins(s, todo, k + 1)

RECURSIVE PropagateScan(_, _, _)
PropagateScan(s, todo, k) ==
    IF k > Len(todo) THEN s
    ELSE LET locidx == todo[k]
             r == possible_values(s.p, locidx)
         IN  IF r.num_pv = 0 THEN [s EXCEPT !.returned = TRUE]
             ELSE IF r.num_pv = 1
             THEN PropagateScan(
                    [s EXCEPT !.p.value[locidx] = pv2val[r.pv],
                              !.p.num_no_value = @ - 1,
                              !.values_have_been_set = TRUE],
                    todo, k + 1)
             ELSE IF r.num_pv < s.best_num_pv
             THEN PropagateScan(
                    [s EXCEPT !.best_num_pv = r.num_pv,
                              !.best_locidx = locidx,
                              !.best_pv = r.pv],
                    todo, k + 1)
             ELSE PropagateScan(s, todo, k + 1)

\* PropagateLoop without the while: one pass only
PropagateLoopOnce(s) ==
    PropagateScan([s EXCEPT !.best_num_pv = NoBestNumPv,
                            !.values_have_been_set = FALSE],
                  InOrder({locidx \in Cells : s.p.value[locidx] = NO_VALUE}),
                  1)

RECURSIVE PropagateLoop(_)
PropagateLoop(s) ==
    LET r == PropagateScan([s EXCEPT !.best_num_pv = NoBestNumPv,
                                     !.values_have_been_set = FALSE],
                           InOrder({locidx \in Cells : s.p.value[locidx] = NO_VALUE}),
                           1)
    IN  IF r.returned THEN r
        ELSE IF r.values_have_been_set THEN PropagateLoop(r)
        ELSE r

\* the number of passes that the do ... while makes from the scan state s
RECURSIVE PropagatePasses(_)
PropagatePasses(s) ==
    LET r == PropagateScan([s EXCEPT !.best_num_pv = NoBestNumPv,
                                     !.values_have_been_set = FALSE],
                           InOrder({locidx \in Cells : s.p.value[locidx] = NO_VALUE}),
                           1)
    IN  IF r.returned THEN 1
        ELSE IF r.values_have_been_set THEN 1 + PropagatePasses(r)
        ELSE 1

Propagate(f) ==
    PropagateLoop([p |-> f.p,
                   best_num_pv |-> f.best_num_pv,
                   best_locidx |-> f.best_locidx,
                   best_pv |-> f.best_pv,
                   values_have_been_set |-> FALSE,
                   returned |-> FALSE])

\* NextTrial with the test of best_pv left out: every value is tried
NextTrialAnyValue(best_pv, from) == IF from > 9 THEN 10 ELSE from

\* NextTrial with the loop ending at trial_val < 9: the value 9 is not tried
RECURSIVE NextTrialBelowNine(_, _)
NextTrialBelowNine(best_pv, from) ==
    IF from > 8 THEN 10
    ELSE IF HasBit(best_pv, from) THEN from
    ELSE NextTrialBelowNine(best_pv, from + 1)

\* the smallest trial value >= from whose bit is set in best_pv, 10 if none
RECURSIVE NextTrial(_, _)
NextTrial(best_pv, from) ==
    IF from > 9 THEN 10
    ELSE IF HasBit(best_pv, from) THEN from
    ELSE NextTrial(best_pv, from + 1)

(***************************************************************************)
(* The puzzle files that are tried.  A file is given by its 81 cell        *)
(* characters, 0 for ' ' and 1..9 for '1'..'9' (PROCESS_CHAR).             *)
(*   FileTwo      two solutions, one branch                                *)
(*   FileThree    three solutions, a branch below the first trial          *)
(*   FileDup      the value 8 twice in row 0: the loader rejects it        *)
(*   FileNoSol    no duplicate, but cell 0 has no candidate                *)
(***************************************************************************)
SolvedGrid ==
    << 8, 7, 2, 5, 9, 3, 1, 4, 6,
       3, 4, 6, 2, 7, 1, 5, 9, 8,
       9, 1, 5, 8, 4, 6, 3, 2, 7,
       5, 6, 7, 9, 2, 8, 4, 3, 1,
       4, 3, 9, 1, 5, 7, 8, 6, 2,
       1, 2, 8, 3, 6, 4, 9, 7, 5,
       7, 8, 4, 6, 1, 9, 2, 5, 3,
       6, 5, 3, 4, 8, 2, 7, 1, 9,
       2, 9, 1, 7, 3, 5, 6, 8, 4 >>

FileWithHoles(holes) ==
    [locidx \in Cells |-> IF locidx \in holes THEN 0 ELSE SolvedGrid[locidx + 1]]

FileTwo == FileWithHoles({0, 1, 54, 55})

FileThree == FileWithHoles({0, 4, 18, 21, 22, 66, 67, 73})

FileDup == [FileWithHoles({}) EXCEPT ![1] = 8]

FileNoSol == [FileWithHoles({0, 55}) EXCEPT ![1] = 8]

Files == {FileTwo, FileThree, FileDup, FileNoSol}

(***************************************************************************)
(* read_puzzle: PROCESS_CHAR fills value[] and counts num_no_value down    *)
(* from 81 once per digit; CHECK2 rejects a row, column or 3x3 grid that   *)
(* holds a value 1..9 twice.                                               *)
(***************************************************************************)
\* ProcessChars without p->num_no_value--
ProcessCharsUncounted(file) ==
    [value |-> [locidx \in Cells |->
                  IF file[locidx] = 0 THEN NO_VALUE ELSE file[locidx]],
     num_no_value |-> NumCells]

ProcessChars(file) ==
    [value |-> [locidx \in Cells |->
                  IF file[locidx] = 0 THEN NO_VALUE ELSE file[locidx]],
     num_no_value |-> NumCells - Cardinality({locidx \in Cells : file[locidx] # 0})]

\* CHECK2 over the nine cells of one unit: TRUE when the unit is accepted
RECURSIVE Check2Scan(_, _, _, _)
Check2Scan(value, unit, ii, mask) ==
    IF ii > 9 THEN TRUE
    ELSE LET v == value[unit[ii]]
         IN  IF v >= 1 /\ v <= 9
             THEN IF v \in mask THEN FALSE
                  ELSE Check2Scan(value, unit, ii + 1, mask \cup {v})
             ELSE IF v = NO_VALUE
             THEN Check2Scan(value, unit, ii + 1, mask)
             ELSE FALSE

CHECK2(value, unit) == Check2Scan(value, unit, 1, {})

gli_tbl == << 0, 3, 6, 27, 30, 33, 54, 57, 60 >>

RowUnit(rli) == [k \in 1 .. 9 |-> rli + (k - 1)]

ColUnit(cli) == [k \in 1 .. 9 |-> cli + 9 * (k - 1)]

GridUnit(gli) == [k \in 1 .. 9 |-> gli + 9 * ((k - 1) \div 3) + ((k - 1) % 3)]

Units ==
    {RowUnit(9 * r) : r \in 0 .. 8} \cup {ColUnit(c) : c \in 0 .. 8}
        \cup {GridUnit(gli_tbl[g]) : g \in 1 .. 9}

LoaderAccepts(value) == \A unit \in Units : CHECK2(value, unit)

(***************************************************************************)
(* State                                                                   *)
(***************************************************************************)
VARIABLES
    max_threads,              \* argv[2]
    print_interval,           \* argv[3]
    max_solutions,            \* argv[4], 0 is "infinite"
    file,                     \* the cell characters of the puzzle file
    puzzle,                   \* main's puzzle_t, filled by read_puzzle
    total_solutions,
    num_threads,
    num_thread_creates,
    find_solutions_start_us,
    find_solutions_end_us,
    find_solutions_done,
    ctrl_c,
    thread_create_mutex,      \* the owning thread, or NOBODY
    print_puzzle_mutex,       \* the owning thread, or NOBODY
    now,                      \* the reading of the monotonic clock
    tpc,                      \* thread |-> where it is outside find_solutions
    stack,                    \* thread |-> its find_solutions frames
    accepted,                 \* history: the solutions that kept their count,
                              \* in the order of their increments, each with
                              \* ctrl_c as it was at the increment
    reports,                  \* history: the print_puzzle calls of the search
    cap_reached               \* history: num_threads has been max_threads

vars ==
    << max_threads, print_interval, max_solutions, file, puzzle,
       total_solutions, num_threads, num_thread_creates,
       find_solutions_start_us, find_solutions_end_us, find_solutions_done,
       ctrl_c, thread_create_mutex, print_puzzle_mutex, now, tpc, stack,
       accepted, reports, cap_reached >>

NOBODY == -1

MAIN == 0

Threads == DOMAIN stack

Workers == Threads \ {MAIN}

\* the process is running: main has not returned, exit(1), abort() or a
\* fatal signal has not ended it
Alive == tpc[MAIN] \notin {"exit0", "exit1", "aborted", "killed"}

\* thread t is inside find_solutions and its innermost call is at pc
At(t, pc) ==
    /\ Alive
    /\ stack[t] # << >>
    /\ stack[t][Len(stack[t])].pc = pc

Top(t) == stack[t][Len(stack[t])]

\* the innermost frame of t becomes f
WithTop(t, f) == [stack EXCEPT ![t] = [@ EXCEPT ![Len(@)] = f]]


\* find_solutions(p, new_thread) is entered
NewFrame(p, new_thread) ==
    [p |-> p, new_thread |-> new_thread, pc |-> "sigint_check",
     best_num_pv |-> 0, best_locidx |-> 0, best_pv |-> 0,
     trial_val |-> 0, ts |-> 0]

(***************************************************************************)
(* The for loop over trial_val and the return of a call.  Both touch only  *)
(* the locals of thread t, so they are part of the step that leads to      *)
(* them: TrialLoop runs the loop of the innermost call of t up to its next *)
(* call of find_solutions(p, false), or to its return when no value of     *)
(* best_pv is left; Return ends the innermost call and resumes the loop    *)
(* of the caller, which every call but the outermost one has.  s is the    *)
(* stacks of all the threads.                                              *)
(***************************************************************************)
RECURSIVE TrialLoop(_, _)
RECURSIVE Return(_, _)
TrialLoop(s, t) ==
    LET f == s[t][Len(s[t])]
        trial_val == NextTrial(f.best_pv, f.trial_val)
        g == [f EXCEPT !.p.value[f.best_locidx] = trial_val,
                       !.trial_val = trial_val + 1]
    IN  IF trial_val > 9 THEN Return(s, t)
        ELSE [s EXCEPT ![t] = Append(SubSeq(@, 1, Len(@) - 1), g)
                                \o << NewFrame(g.p, FALSE) >>]

Return(s, t) ==
    LET r == [s EXCEPT ![t] = SubSeq(@, 1, Len(@) - 1)]
    IN  IF r[t] = << >> THEN r ELSE TrialLoop(r, t)

\* the innermost call of t returns
WithReturn(t) == Return(stack, t)

EmptyPuzzle == [value |-> [locidx \in Cells |-> NO_VALUE], num_no_value |-> NumCells]

Init ==
    /\ max_threads \in 0 .. MaxThreadsArg
    /\ print_interval \in 0 .. MaxPrintIntervalArg
    /\ max_solutions \in 0 .. MaxSolutionsArg
    /\ file \in Files
    /\ puzzle = EmptyPuzzle
    /\ total_solutions = 0
    /\ num_threads = 0
    /\ num_thread_creates = 0
    /\ find_solutions_start_us = 0
    /\ find_solutions_end_us = 0
    /\ find_solutions_done = FALSE
    /\ ctrl_c = FALSE
    /\ thread_create_mutex = NOBODY
    /\ print_puzzle_mutex = NOBODY
    /\ now = 1
    /\ tpc = (MAIN :> "sigint_register")
    /\ stack = (MAIN :> << >>)
    /\ accepted = << >>
    /\ reports = << >>
    /\ cap_reached = (max_threads = 0)

(***************************************************************************)
(* main                                                                    *)
(***************************************************************************)
SigintRegister ==
    /\ tpc[MAIN] = "sigint_register"
    /\ tpc' = [tpc EXCEPT ![MAIN] = "initialize"]
    /\ UNCHANGED << max_threads, print_interval, max_solutions, file, puzzle,
                    total_solutions, num_threads, num_thread_creates,
                    find_solutions_start_us, find_solutions_end_us,
                    find_solutions_done, ctrl_c, thread_create_mutex,
                    print_puzzle_mutex, now, stack, accepted, reports,
                    cap_reached >>

\* initialize: the sibling table and pv2val are the definitions siblings and
\* pv2val; assert(max_sib == 20) is made for every locidx
Initialize ==
    /\ tpc[MAIN] = "initialize"
    /\ tpc' = [tpc EXCEPT ![MAIN] =
                 IF \A locidx \in Cells : max_sib(locidx) = NumSiblings
                 THEN "read_puzzle" ELSE "aborted"]
    /\ UNCHANGED << max_threads, print_interval, max_solutions, file, puzzle,
                    total_solutions, num_threads, num_thread_creates,
                    find_solutions_start_us, find_solutions_end_us,
                    find_solutions_done, ctrl_c, thread_create_mutex,
                    print_puzzle_mutex, now, stack, accepted, reports,
                    cap_reached >>

\* read_puzzle: fill the puzzle, then exit(1) unless every CHECK2 passes
ReadPuzzle ==
    /\ tpc[MAIN] = "read_puzzle"
    /\ puzzle' = ProcessChars(file)
    /\ tpc' = [tpc EXCEPT ![MAIN] =
                 IF LoaderAccepts(puzzle'.value) THEN "find_solutions" ELSE "exit1"]
    /\ UNCHANGED << max_threads, print_interval, max_solutions, file,
                    total_solutions, num_threads, num_thread_creates,
                    find_solutions_start_us, find_solutions_end_us,
                    find_solutions_done, ctrl_c, thread_create_mutex,
                    print_puzzle_mutex, now, stack, accepted, reports,
                    cap_reached >>

\* find_solutions(puzzle, false)
CallFindSolutions ==
    /\ tpc[MAIN] = "find_solutions"
    /\ stack' = [stack EXCEPT ![MAIN] = << NewFrame(puzzle, FALSE) >>]
    /\ tpc' = [tpc EXCEPT ![MAIN] = "wait"]
    /\ UNCHANGED << max_threads, print_interval, max_solutions, file, puzzle,
                    total_solutions, num_threads, num_thread_creates,
                    find_solutions_start_us, find_solutions_end_us,
                    find_solutions_done, ctrl_c, thread_create_mutex,
                    print_puzzle_mutex, now, accepted, reports, cap_reached >>

\* while (!find_solutions_done) usleep(1000): one test of the flag
WaitDone ==
    /\ tpc[MAIN] = "wait"
    /\ stack[MAIN] = << >>
    /\ tpc' = [tpc EXCEPT ![MAIN] = IF find_solutions_done THEN "totals" ELSE "wait"]
    /\ UNCHANGED << max_threads, print_interval, max_solutions, file, puzzle,
                    total_solutions, num_threads, num_thread_creates,
                    find_solutions_start_us, find_solutions_end_us,
                    find_solutions_done, ctrl_c, thread_create_mutex,
                    print_puzzle_mutex, now, stack, accepted, reports,
                    cap_reached >>

\* the totals are printed and main returns 0
PrintTotals ==
    /\ tpc[MAIN] = "totals"
    /\ tpc' = [tpc EXCEPT ![MAIN] = "exit0"]
    /\ UNCHANGED << max_threads, print_interval, max_solutions, file, puzzle,
                    total_solutions, num_threads, num_thread_creates,
                    find_solutions_start_us, find_solutions_end_us,
                    find_solutions_done, ctrl_c, thread_create_mutex,
                    print_puzzle_mutex, now, stack, accepted, reports,
                    cap_reached >>

\* SIGINT is delivered once the handler is registered: sigint_handler
Sigint ==
    /\ Alive
    /\ tpc[MAIN] # "sigint_register"
    /\ ~ctrl_c
    /\ ctrl_c' = TRUE
    /\ UNCHANGED << max_threads, print_interval, max_solutions, file, puzzle,
                    total_solutions, num_threads, num_thread_creates,
                    find_solutions_start_us, find_solutions_end_us,
                    find_solutions_done, thread_create_mutex,
                    print_puzzle_mutex, now, tpc, stack, accepted, reports,
                    cap_reached >>

(***************************************************************************)
(* find_solutions, up to the search: the two early returns and the         *)
(* decision to hand the grid to a new thread                               *)
(***************************************************************************)
params == << max_threads, print_interval, max_solutions, file, puzzle >>

stamps == << find_solutions_start_us, find_solutions_end_us, now >>

history == << accepted, reports, cap_reached >>

mutexes == << thread_create_mutex, print_puzzle_mutex >>

\* sigint_check that never sees the flag
sigint_check_never == FALSE

\* sigint_check(): return ctrl_c
sigint_check == ctrl_c

\* LimitReached for a call that never finds the limit reached
LimitNeverReached == FALSE

\* max_solutions != MAX_SOLUTIONS_INFINITE && total_solutions >= max_solutions
LimitReached ==
    max_solutions # MAX_SOLUTIONS_INFINITE /\ total_solutions >= max_solutions

\* the test made without the mutex: num_threads < max_threads, which
\* !new_thread && ... evaluates only when new_thread is false
FastCheckPasses == num_threads < max_threads

\* RecheckPasses without the second test: the fast check alone decides
RecheckSkipped == TRUE

\* the test repeated under thread_create_mutex
RecheckPasses == num_threads < max_threads

\* AfterLimitCheck without !new_thread: every call makes the fast check
AfterLimitCheckAlways(f) == "fast_check"

\* where a call goes on after its two early returns: !new_thread is tested
AfterLimitCheck(f) == IF f.new_thread THEN "search" ELSE "fast_check"

\* if (sigint_check()) return;  With max_solutions infinite the test of the
\* limit that follows reads no shared variable and is part of this step.
SigintCheck(t) ==
    /\ At(t, "sigint_check")
    /\ stack' = IF sigint_check THEN WithReturn(t)
                ELSE WithTop(t, [Top(t) EXCEPT !.pc =
                        IF max_solutions # MAX_SOLUTIONS_INFINITE
                        THEN "limit_check" ELSE AfterLimitCheck(Top(t))])
    /\ UNCHANGED << params, stamps, history, mutexes, total_solutions,
                    num_threads, num_thread_creates, find_solutions_done,
                    ctrl_c, tpc >>

\* if (... total_solutions >= max_solutions) return;
LimitCheck(t) ==
    /\ At(t, "limit_check")
    /\ stack' = IF LimitReached THEN WithReturn(t)
                ELSE WithTop(t, [Top(t) EXCEPT !.pc = AfterLimitCheck(Top(t))])
    /\ UNCHANGED << params, stamps, history, mutexes, total_solutions,
                    num_threads, num_thread_creates, find_solutions_done,
                    ctrl_c, tpc >>

\* if (!new_thread && num_threads < max_threads)
FastCheck(t) ==
    /\ At(t, "fast_check")
    /\ stack' = WithTop(t, [Top(t) EXCEPT !.pc =
                   IF FastCheckPasses THEN "lock" ELSE "search"])
    /\ UNCHANGED << params, stamps, history, mutexes, total_solutions,
                    num_threads, num_thread_creates, find_solutions_done,
                    ctrl_c, tpc >>

\* pthread_mutex_lock(&thread_create_mutex)
LockCreateMutex(t) ==
    /\ At(t, "lock")
    /\ thread_create_mutex = NOBODY
    /\ thread_create_mutex' = t
    /\ stack' = WithTop(t, [Top(t) EXCEPT !.pc = "recheck"])
    /\ UNCHANGED << params, stamps, history, print_puzzle_mutex,
                    total_solutions, num_threads, num_thread_creates,
                    find_solutions_done, ctrl_c, tpc >>

\* if (num_threads < max_threads), under the mutex
Recheck(t) ==
    /\ At(t, "recheck")
    /\ stack' = WithTop(t, [Top(t) EXCEPT !.pc =
                   IF RecheckPasses THEN "create" ELSE "unlock_continue"])
    /\ UNCHANGED << params, stamps, history, mutexes, total_solutions,
                    num_threads, num_thread_creates, find_solutions_done,
                    ctrl_c, tpc >>

\* num_thread_creates++, __sync_fetch_and_add(&num_threads, 1), the start
\* time when the old value was 0, and pthread_create with a copy of p
CreateThread(t) ==
    /\ At(t, "create")
    /\ LET new == Cardinality(Threads)
       IN  /\ stack' = WithTop(t, [Top(t) EXCEPT !.pc = "unlock_return"])
                         @@ (new :> << NewFrame(Top(t).p, TRUE) >>)
           /\ tpc' = tpc @@ (new :> "run")
    /\ num_thread_creates' = num_thread_creates + 1
    /\ num_threads' = num_threads + 1
    /\ IF num_threads = 0
       THEN /\ find_solutions_start_us' = now
            /\ now' = now + 1
       ELSE UNCHANGED << find_solutions_start_us, now >>
    /\ cap_reached' = (cap_reached \/ num_threads' = max_threads)
    /\ UNCHANGED << params, accepted, reports, mutexes, total_solutions,
                    find_solutions_end_us, find_solutions_done, ctrl_c >>

\* pthread_mutex_unlock; return;
UnlockReturn(t) ==
    /\ At(t, "unlock_return")
    /\ thread_create_mutex' = NOBODY
    /\ stack' = WithReturn(t)
    /\ UNCHANGED << params, stamps, history, print_puzzle_mutex,
                    total_solutions, num_threads, num_thread_creates,
                    find_solutions_done, ctrl_c, tpc >>

\* no thread was created: pthread_mutex_unlock and go on to the search
UnlockContinue(t) ==
    /\ At(t, "unlock_continue")
    /\ thread_create_mutex' = NOBODY
    /\ stack' = WithTop(t, [Top(t) EXCEPT !.pc = "search"])
    /\ UNCHANGED << params, stamps, history, print_puzzle_mutex,
                    total_solutions, num_threads, num_thread_creates,
                    find_solutions_done, ctrl_c, tpc >>

(***************************************************************************)
(* find_solutions: the search                                              *)
(***************************************************************************)
\* __sync_add_and_fetch(&v, n) and __sync_sub_and_fetch(&v, n): the new
\* value of v, which the step stores and gets as one atomic access
\* the two with the update lost
sync_add_and_fetch_lost(v, n) == v

sync_sub_and_fetch_lost(v, n) == v

sync_add_and_fetch(v, n) == v + n

sync_sub_and_fetch(v, n) == v - n

\* Overshoot with the test of the limit left out
OvershootIgnored(ts) == FALSE

\* max_solutions != MAX_SOLUTIONS_INFINITE && ts > max_solutions
Overshoot(ts) == max_solutions # MAX_SOLUTIONS_INFINITE /\ ts > max_solutions

\* (ts % print_interval) == 0 || ts == 1
ShouldPrint(ts) == (ts % print_interval) = 0 \/ ts = 1

\* What the test of the print interval leads to.  ts % 0 is undefined: the
\* division traps and the signal ends the process, or it yields some value
\* and the solution is printed or not.
PrintOutcomes(ts) ==
    IF print_interval = 0 THEN {"killed", "print", "return"}
    ELSE IF ShouldPrint(ts) THEN {"print"}
    ELSE {"return"}

\* if (p.num_no_value == 0): ts = __sync_add_and_fetch(&total_solutions, 1),
\* the test of the limit and, for a solution that keeps its count, the test
\* of the print interval.  f is the frame of t after the propagation.
CountSolution(t, f) ==
    LET ts == sync_add_and_fetch(total_solutions, 1)
        g == [f EXCEPT !.ts = ts]
    IN  /\ total_solutions' = ts
        /\ IF Overshoot(ts)
           THEN /\ stack' = WithTop(t, [g EXCEPT !.pc = "rollback"])
                /\ UNCHANGED << tpc, accepted >>
           ELSE /\ accepted' = Append(accepted,
                                      [ts |-> ts, value |-> g.p.value,
                                       interrupted |-> ctrl_c])
                /\ \E outcome \in PrintOutcomes(ts) :
                     IF outcome = "killed"
                     THEN tpc' = [tpc EXCEPT ![MAIN] = "killed"]
                          /\ stack' = WithTop(t, [g EXCEPT !.pc = "killed"])
                     ELSE IF outcome = "print"
                     THEN stack' = WithTop(t, [g EXCEPT !.pc = "print_lock"])
                          /\ UNCHANGED tpc
                     ELSE stack' = WithReturn(t) /\ UNCHANGED tpc

\* The search of one call, from the do ... while loop to its next access to
\* shared memory: the return of the num_pv == 0 case, or the count of the
\* solution, or the assert, p.num_no_value-- and the for loop up to its
\* first call.  The propagation works on the call's own copy of the grid.
Search(t) ==
    /\ At(t, "search")
    /\ LET r == Propagate(Top(t))
           f == [Top(t) EXCEPT !.p = r.p,
                               !.best_num_pv = r.best_num_pv,
                               !.best_locidx = r.best_locidx,
                               !.best_pv = r.best_pv]
       IN  IF r.returned
           THEN /\ stack' = WithReturn(t)
                /\ UNCHANGED << tpc, total_solutions, accepted >>
           ELSE IF r.p.num_no_value = 0
           THEN CountSolution(t, f)
           ELSE IF ~(r.best_num_pv >= 2 /\ r.best_num_pv <= 9)
           THEN /\ tpc' = [tpc EXCEPT ![MAIN] = "aborted"]
                /\ UNCHANGED << stack, total_solutions, accepted >>
           ELSE /\ stack' = TrialLoop(WithTop(t, [f EXCEPT
                                          !.p.num_no_value = @ - 1,
                                          !.trial_val = 1,
                                          !.pc = "trial"]), t)
                /\ UNCHANGED << tpc, total_solutions, accepted >>
    /\ UNCHANGED << params, stamps, reports, cap_reached, mutexes, num_threads,
                    num_thread_creates, find_solutions_done, ctrl_c >>

\* __sync_sub_and_fetch(&total_solutions, 1); return;
Rollback(t) ==
    /\ At(t, "rollback")
    /\ total_solutions' = sync_sub_and_fetch(total_solutions, 1)
    /\ stack' = WithReturn(t)
    /\ UNCHANGED << params, stamps, history, mutexes, num_threads,
                    num_thread_creates, find_solutions_done, ctrl_c, tpc >>

\* PrintMutexFree without the mutex
PrintMutexIgnored == TRUE

\* print_puzzle: pthread_mutex_lock(&print_puzzle_mutex)
PrintMutexFree == print_puzzle_mutex = NOBODY

LockPrintMutex(t) ==
    /\ At(t, "print_lock")
    /\ PrintMutexFree
    /\ print_puzzle_mutex' = t
    /\ stack' = WithTop(t, [Top(t) EXCEPT !.pc = "print"])
    /\ UNCHANGED << params, stamps, history, thread_create_mutex,
                    total_solutions, num_threads, num_thread_creates,
                    find_solutions_done, ctrl_c, tpc >>

\* print_puzzle: the lines are written, the mutex is released and
\* find_solutions returns.  The text and the rate statistics are left out.
PrintPuzzle(t) ==
    /\ At(t, "print")
    /\ reports' = Append(reports, [ts |-> Top(t).ts, value |-> Top(t).p.value])
    /\ print_puzzle_mutex' = IF print_puzzle_mutex = t THEN NOBODY
                             ELSE print_puzzle_mutex
    /\ stack' = WithReturn(t)
    /\ UNCHANGED << params, stamps, accepted, cap_reached, thread_create_mutex,
                    total_solutions, num_threads, num_thread_creates,
                    find_solutions_done, ctrl_c, tpc >>

(***************************************************************************)
(* find_solutions_thread, after its find_solutions call has returned       *)
(***************************************************************************)
\* LastThread for a worker that takes every decrement for the last one
LastThreadAlways(n) == TRUE

\* if (__sync_sub_and_fetch(&num_threads, 1) == 0), n the value fetched
LastThread(n) == n = 0

\* __sync_sub_and_fetch(&num_threads, 1) == 0
ThreadDecrement(t) ==
    /\ Alive
    /\ t # MAIN
    /\ tpc[t] = "run"
    /\ stack[t] = << >>
    /\ num_threads' = sync_sub_and_fetch(num_threads, 1)
    /\ tpc' = [tpc EXCEPT ![t] = IF LastThread(num_threads') THEN "last" ELSE "exited"]
    /\ UNCHANGED << params, stamps, history, mutexes, total_solutions,
                    num_thread_creates, find_solutions_done, ctrl_c, stack >>

\* find_solutions_end_us = microsec_timer(); __sync_synchronize();
ThreadRecordEnd(t) ==
    /\ Alive
    /\ t # MAIN
    /\ tpc[t] = "last"
    /\ find_solutions_end_us' = now
    /\ now' = now + 1
    /\ tpc' = [tpc EXCEPT ![t] = "set_done"]
    /\ UNCHANGED << params, history, mutexes, total_solutions, num_threads,
                    num_thread_creates, find_solutions_start_us,
                    find_solutions_done, ctrl_c, stack >>

\* find_solutions_done = true; free(cx); return NULL;
ThreadSetDone(t) ==
    /\ Alive
    /\ t # MAIN
    /\ tpc[t] = "set_done"
    /\ find_solutions_done' = TRUE
    /\ tpc' = [tpc EXCEPT ![t] = "exited"]
    /\ UNCHANGED << params, stamps, history, mutexes, total_solutions,
                    num_threads, num_thread_creates, ctrl_c, stack >>

(***************************************************************************)
(* The specification                                                       *)
(***************************************************************************)
MainStep ==
    \/ SigintRegister
    \/ Initialize
    \/ ReadPuzzle
    \/ CallFindSolutions
    \/ WaitDone
    \/ PrintTotals

\* a step of thread t inside find_solutions or find_solutions_thread other
\* than the search itself
Control(t) ==
    /\ t \in Threads
    /\ \/ SigintCheck(t)
       \/ LimitCheck(t)
       \/ FastCheck(t)
       \/ LockCreateMutex(t)
       \/ Recheck(t)
       \/ CreateThread(t)
       \/ UnlockReturn(t)
       \/ UnlockContinue(t)
       \/ Rollback(t)
       \/ LockPrintMutex(t)
       \/ PrintPuzzle(t)
       \/ ThreadDecrement(t)
       \/ ThreadRecordEnd(t)
       \/ ThreadSetDone(t)

\* Search(t) can be taken, and every Search step changes stack or tpc
SearchEnabled(t) == t \in Threads /\ At(t, "search")

Next ==
    \/ SigintRegister
    \/ Initialize
    \/ ReadPuzzle
    \/ CallFindSolutions
    \/ WaitDone
    \/ PrintTotals
    \/ Sigint
    \/ \E t \in Threads : SigintCheck(t)
    \/ \E t \in Threads : LimitCheck(t)
    \/ \E t \in Threads : FastCheck(t)
    \/ \E t \in Threads : LockCreateMutex(t)
    \/ \E t \in Threads : Recheck(t)
    \/ \E t \in Threads : CreateThread(t)
    \/ \E t \in Threads : UnlockReturn(t)
    \/ \E t \in Threads : UnlockContinue(t)
    \/ \E t \in Threads : Search(t)
    \/ \E t \in Threads : Rollback(t)
    \/ \E t \in Threads : LockPrintMutex(t)
    \/ \E t \in Threads : PrintPuzzle(t)
    \/ \E t \in Threads : ThreadDecrement(t)
    \/ \E t \in Threads : ThreadRecordEnd(t)
    \/ \E t \in Threads : ThreadSetDone(t)

Spec == Init /\ [][Next]_vars

(***************************************************************************)
(* Properties                                                              *)
(***************************************************************************)
\* the frames of all the calls of find_solutions that are in progress
Frames == UNION {{stack[t][k] : k \in DOMAIN stack[t]} : t \in Threads}

\* the threads whose innermost call is at one of the places pcs
ThreadsAt(pcs) == {t \in Threads : stack[t] # << >> /\ Top(t).pc \in pcs}

\* a grid is a solution: every cell holds a value 1..9, and every row, every
\* column and every 3x3 block holds each of the nine values
ValidGrid(g) ==
    /\ \A c \in Cells : g[c] \in Values
    /\ \A r \in 0 .. 8 : {g[9 * r + c] : c \in 0 .. 8} = Values
    /\ \A c \in 0 .. 8 : {g[9 * r + c] : r \in 0 .. 8} = Values
    /\ \A br \in 0 .. 2 : \A bc \in 0 .. 2 :
         {g[9 * (3 * br + i) + 3 * bc + j] : i \in 0 .. 2, j \in 0 .. 2} = Values

\* the value v may be put in the unset cell c of g: no cell of the row, the
\* column or the block of c holds it
Fits(g, c, v) ==
    \A d \in Cells :
       (d # c /\ (d \div 9 = c \div 9 \/ d % 9 = c % 9
                   \/ (d \div 27 = c \div 27 /\ (d % 9) \div 3 = (c % 9) \div 3)))
          => g[d] # v

\* every way to fill the cells holes of g, one cell after the other
RECURSIVE FillAll(_, _)
FillAll(g, holes) ==
    IF holes = {} THEN {g}
    ELSE LET c == CHOOSE x \in holes : TRUE
         IN  UNION {FillAll([g EXCEPT ![c] = v], holes \ {c}) :
                      v \in {w \in Values : Fits(g, c, w)}}

\* the solutions of the puzzle value: the valid grids that keep its givens
ValidCompletions(value) ==
    {g \in FillAll(value, {c \in Cells : value[c] = NO_VALUE}) : ValidGrid(g)}

Min(a, b) == IF a < b THEN a ELSE b

\* C1: in every reachable state the number of active workers num_threads is
\* at least 0 and at most max_threads.
C1_NumThreadsWithinCap == num_threads >= 0 /\ num_threads <= max_threads

\* the cap is full and a caller that had passed the fast check was turned
\* away by the test under the mutex
C1_Witness ==
    /\ max_threads >= 2
    /\ num_threads = max_threads
    /\ ThreadsAt({"unlock_continue"}) # {}

\* the grids that reached num_no_value == 0: those that kept their count and
\* those whose count is about to be rolled back
CompletedGrids ==
    {accepted[i].value : i \in DOMAIN accepted}
      \cup {f.p.value : f \in {g \in Frames : g.pc \in {"rollback", "print_lock", "print"}}}

\* C2: every grid that find_solutions finds complete (num_no_value == 0 after
\* the propagation loop) has all its cells set, and each row, column and 3x3
\* block of it holds every value 1..9 exactly once.
C2_CompletedGridsValid == \A g \in CompletedGrids : ValidGrid(g)

C2_Witness ==
    /\ max_solutions = 1
    /\ Len(accepted) = 1
    /\ ThreadsAt({"rollback"}) # {}

\* C3: with no limit on the solutions and no SIGINT, when the search is done
\* the grids that were counted are exactly the solutions of the puzzle that
\* was read, each counted once, and total_solutions is their number, for
\* every max_threads and every interleaving.
C3_SolutionSetComplete ==
    (find_solutions_done /\ max_solutions = MAX_SOLUTIONS_INFINITE /\ ~ctrl_c)
      => LET all == ValidCompletions(puzzle.value)
         IN  /\ {accepted[i].value : i \in DOMAIN accepted} = all
             /\ Len(accepted) = Cardinality(all)
             /\ total_solutions = Cardinality(all)

\* three workers have found the three solutions, and the one counted first
\* is not the one a single thread counts first
C3_Witness ==
    /\ find_solutions_done
    /\ max_solutions = MAX_SOLUTIONS_INFINITE
    /\ ~ctrl_c
    /\ max_threads = 3
    /\ Len(accepted) = 3
    /\ accepted[1].value[0] # 8

\* C4: with a limit C on the solutions and no SIGINT, when the search is done
\* total_solutions is the smaller of C and the number of solutions of the
\* puzzle.
C4_TotalIsMinOfCapAndSolutions ==
    (find_solutions_done /\ max_solutions # MAX_SOLUTIONS_INFINITE /\ ~ctrl_c)
      => total_solutions
           = Min(max_solutions, Cardinality(ValidCompletions(puzzle.value)))

C4_Witness ==
    /\ find_solutions_done
    /\ ~ctrl_c
    /\ max_solutions = 2
    /\ max_threads >= 2
    /\ file = FileThree
    /\ total_solutions = 2

\* C5: the sequence numbers of the solutions that keep their count increase
\* strictly in the order of the increments, so no two of them are equal.
C5_SequenceNumbersIncrease ==
    \A i \in DOMAIN accepted : \A j \in DOMAIN accepted :
       i < j => accepted[i].ts < accepted[j].ts

\* two solutions are counted while the count of a third is being rolled back
C5_Witness ==
    /\ max_solutions = 2
    /\ Len(accepted) = 2
    /\ accepted[2].ts = 2
    /\ ThreadsAt({"rollback"}) # {}

\* C6: with a limit C on the solutions, total_solutions is never above C by
\* more than the number of threads that have counted a solution over the
\* limit and not yet taken it back, which is at most the number of threads
\* that are inside find_solutions.
C6_OvershootBounded ==
    max_solutions # MAX_SOLUTIONS_INFINITE
      => /\ total_solutions
              <= max_solutions + Cardinality(ThreadsAt({"rollback"}))
         /\ total_solutions
              <= max_solutions + Cardinality({t \in Threads : stack[t] # << >>})

C6_Witness ==
    /\ max_solutions # MAX_SOLUTIONS_INFINITE
    /\ total_solutions = max_solutions + 2

\* C7: print_puzzle runs in at most one thread at a time, and it is called
\* at most once for a solution that kept its count and for no other grid.
C7_ReporterSerialisedOncePerSolution ==
    /\ Cardinality(ThreadsAt({"print"})) <= 1
    /\ \A i \in DOMAIN reports : \A j \in DOMAIN reports :
         i # j => reports[i].ts # reports[j].ts
    /\ \A i \in DOMAIN reports : \E j \in DOMAIN accepted :
         accepted[j].ts = reports[i].ts /\ accepted[j].value = reports[i].value
    /\ \A t \in ThreadsAt({"print"}) : \A i \in DOMAIN reports :
         reports[i].ts # Top(t).ts

\* one thread is printing its solution while another waits for the mutex
\* with the next one
C7_Witness ==
    /\ Len(reports) >= 1
    /\ ThreadsAt({"print"}) # {}
    /\ ThreadsAt({"print_lock"}) # {}

\* s is 1 or a multiple of print_interval
ReportDue(s) == s = 1 \/ \E k \in 0 .. s : s = k * print_interval

\* the calls that have counted a solution and are about to print it
Reporting == {f \in Frames : f.pc \in {"print_lock", "print"}}

\* C8: a solution that kept its count is printed if and only if its sequence
\* number is 1 or a multiple of print_interval: nothing else is printed or
\* about to be, and every such solution is printed or about to be.
C8_ReportedIffDue ==
    /\ \A i \in DOMAIN reports : ReportDue(reports[i].ts)
    /\ \A f \in Reporting : ReportDue(f.ts)
    /\ \A i \in DOMAIN accepted :
         ReportDue(accepted[i].ts)
           => \/ \E j \in DOMAIN reports : reports[j].ts = accepted[i].ts
              \/ \E f \in Reporting : f.ts = accepted[i].ts

\* C8 for the print intervals that ts % print_interval is defined for
C8_ReportedIffDueForPositiveInterval == print_interval >= 1 => C8_ReportedIffDue

\* C9 as it is stated: once ctrl_c is set no solution is counted and
\* print_puzzle is not called any more.  Stated for the runs that may create
\* a worker and whose print interval is not 0.
C9_NothingCountedAfterCancel ==
    [][(ctrl_c /\ max_threads >= 1 /\ print_interval >= 1)
         => (total_solutions' <= total_solutions /\ reports' = reports)]_vars

\* the threads whose innermost call has passed if (sigint_check()) return;
\* and may still find its grid complete
PastEntryCheck ==
    ThreadsAt({"limit_check", "fast_check", "lock", "recheck",
               "unlock_continue", "search"})

\* C9, amended: ctrl_c is tested at the entry of find_solutions only.  Once it
\* is set no call gets past its entry test, so a solution is counted, and
\* print_puzzle is called, only by a call that was already past the test: the
\* counted solutions plus the calls past the test never grow in number, and
\* neither do the printed solutions plus the calls past the test or about
\* to print.
C9_OnlyCallsPastEntryCheckCount ==
    [][ctrl_c =>
         /\ Len(accepted') + Cardinality(PastEntryCheck')
              <= Len(accepted) + Cardinality(PastEntryCheck)
         /\ Len(reports') + Cardinality(ThreadsAt({"print_lock", "print"})')
                + Cardinality(PastEntryCheck')
              <= Len(reports) + Cardinality(ThreadsAt({"print_lock", "print"}))
                   + Cardinality(PastEntryCheck)]_vars

\* a solution was counted with ctrl_c set, and is being printed
C9_Witness ==
    /\ ctrl_c
    /\ \E i \in DOMAIN accepted :
         /\ accepted[i].interrupted
         /\ \E t \in ThreadsAt({"print"}) : Top(t).ts = accepted[i].ts

(***************************************************************************)
(* Fair scheduling: the driver and every thread that exists keep taking    *)
(* the steps they can take.  SIGINT is under no obligation to arrive.      *)
(***************************************************************************)
MaxThreadId == 5

\* weak fairness of Search(t), with ENABLED <<Search(t)>>_vars written out
SearchFair(t) ==
    \/ []<>(~SearchEnabled(t))
    \/ []<><<t \in Threads /\ Search(t)>>_vars

FairSpec ==
    /\ Spec
    /\ WF_vars(MainStep)
    /\ \A t \in 0 .. MaxThreadId : WF_vars(Control(t)) /\ SearchFair(t)

\* the fairness covers every thread of every run
ThreadIdsCovered == Threads \subseteq 0 .. MaxThreadId

\* the driver is past while (!find_solutions_done), or the process has ended
WaitEnded == tpc[MAIN] \in {"totals", "exit0", "exit1", "aborted", "killed"}

\* C10: whenever ctrl_c is set, at any time after sigint_register, the run
\* comes to rest: the workers exit and the wait of the driver for
\* find_solutions_done ends.  Stated for the runs that may create a worker.
C10_CancelEndsTheWait == (ctrl_c /\ max_threads >= 1) ~> WaitEnded

\* C10 for a flag that is set once the first worker has been created: then
\* the wait of the driver does end.
C10_CancelAfterFirstForkEndsTheWait ==
    (ctrl_c /\ num_thread_creates >= 1) ~> WaitEnded

\* C11: after the driver's call find_solutions(puzzle, false), in a run whose
\* ctrl_c is never set, find_solutions_done becomes true, whatever max_threads
\* and max_solutions are.  Stated for the print intervals that
\* ts % print_interval is defined for.
C11_SearchSetsDone ==
    (tpc[MAIN] = "wait" /\ print_interval >= 1)
        ~> (find_solutions_done \/ ctrl_c)

\* C11 for the runs that may create a worker: then find_solutions_done is set
C11_SearchWithWorkersSetsDone ==
    (tpc[MAIN] = "wait" /\ print_interval >= 1 /\ max_threads >= 1)
        ~> (find_solutions_done \/ ctrl_c)

\* while find_solutions_done is true no worker is
\* running (every worker has left find_solutions and has made its decrement, and
\* num_threads is 0), nobody is on the way to pthread_create, and the end
\* timestamp has been recorded after the start timestamp.
C12_DoneMeansNoWorkerRuns ==
    find_solutions_done =>
        /\ num_threads = 0
        /\ num_thread_creates >= 1
        /\ \A t \in Workers : tpc[t] = "exited" /\ stack[t] = << >>
        /\ ThreadsAt({"sigint_check", "limit_check", "fast_check", "lock",
                      "recheck", "create", "search"}) = {}
        /\ find_solutions_end_us > find_solutions_start_us

\* C12: find_solutions_done is set by a worker whose decrement brought
\* num_threads to 0 and that has recorded the end timestamp before; once it is
\* true it stays true, no worker is running, no thread is created, and
\* total_solutions, num_thread_creates and the two timestamps do not change.
C12_DoneSetOnceByLastWorker ==
    [][/\ (~find_solutions_done /\ find_solutions_done')
            => \E t \in Workers :
                 /\ tpc[t] = "set_done" /\ tpc'[t] = "exited"
                 /\ num_threads = 0
                 /\ find_solutions_end_us' = find_solutions_end_us
                 /\ find_solutions_end_us > find_solutions_start_us
                 /\ \A u \in Workers \ {t} : tpc[u] = "exited"
       /\ find_solutions_done
            => /\ find_solutions_done'
               /\ Threads' = Threads
               /\ total_solutions' = total_solutions
               /\ num_thread_creates' = num_thread_creates
               /\ find_solutions_start_us' = find_solutions_start_us
               /\ find_solutions_end_us' = find_solutions_end_us
       /\ C12_DoneMeansNoWorkerRuns']_vars

\* the driver has seen find_solutions_done after a run in which several
\* workers were created and solutions were counted
C12_Witness ==
    /\ find_solutions_done
    /\ tpc[MAIN] = "totals"
    /\ num_thread_creates >= 2
    /\ total_solutions >= 1

\* C13 as it is stated: from the first state in which num_threads equals
\* max_threads on, no thread is created.  Stated for the print intervals that
\* ts % print_interval is defined for.
C13_NoForkOnceCapReached ==
    [][(cap_reached /\ print_interval >= 1) => Threads' = Threads]_vars

\* C13, amended: a thread is created only by a call that holds
\* thread_create_mutex and finds num_threads below max_threads, whatever the
\* depth of the call and whether or not the cap has been reached before; once
\* the cap has been reached a thread is created only after a worker has made
\* its decrement.
C13_ForkOnlyBelowCap ==
    [][Threads' # Threads =>
         /\ num_threads < max_threads
         /\ num_threads' = num_threads + 1
         /\ num_thread_creates' = num_thread_creates + 1
         /\ \E t \in Threads : At(t, "create") /\ thread_create_mutex = t
         /\ cap_reached => num_thread_creates > num_threads]_vars

\* with max_threads = 2 the cap is reached by the second pthread_create
C13_CapOfTwoReachedBySecondFork ==
    (max_threads = 2 /\ num_thread_creates >= 2) => cap_reached

\* the cap of 2 was reached, a worker has exited, and a third worker has been
\* created by a recursive call made inside a worker
C13_Witness ==
    /\ max_threads = 2
    /\ cap_reached
    /\ num_thread_creates = 3
    /\ num_threads = 2
    /\ \E t \in Workers : At(t, "unlock_return") /\ Len(stack[t]) >= 2

\* the innermost call of t is at one of its two entry tests and the test
\* is about to succeed
EntryBlocked(t) ==
    \/ At(t, "sigint_check") /\ ctrl_c
    \/ /\ At(t, "limit_check")
       /\ max_solutions # MAX_SOLUTIONS_INFINITE
       /\ total_solutions >= max_solutions

\* the step of t ends its innermost call and nothing else: the callers whose
\* loops are not resumed keep their frames, the caller that is resumed keeps
\* its branch cell and mask, and nothing of t is past an entry test that was
\* not there before
ReturnsAtOnce(t) ==
    LET old == stack[t]
        new == stack'[t]
    IN  /\ Len(new) <= Len(old)
        /\ \A i \in 1 .. Len(new) - 2 : new[i] = old[i]
        /\ Len(new) >= 2 =>
             /\ new[Len(new) - 1].pc = old[Len(new) - 1].pc
             /\ new[Len(new) - 1].best_locidx = old[Len(new) - 1].best_locidx
             /\ new[Len(new) - 1].best_pv = old[Len(new) - 1].best_pv
             /\ new[Len(new) - 1].trial_val > old[Len(new) - 1].trial_val
        /\ Len(new) >= 1 =>
             /\ Len(new) >= 2
             /\ new[Len(new)].pc = "sigint_check"
             /\ new[Len(new)].new_thread = FALSE

\* C14: a call of find_solutions that finds ctrl_c set, or a finite
\* max_solutions reached by total_solutions, returns and does nothing else:
\* no thread is created, num_threads, num_thread_creates and total_solutions
\* keep their values, no mutex is taken, no solution is counted or printed, and
\* its grid is not propagated.
C14_BlockedEntryHasNoEffect ==
    [][\A t \in Threads :
         (EntryBlocked(t) /\ stack'[t] # stack[t]) =>
            /\ ReturnsAtOnce(t)
            /\ Threads' = Threads
            /\ \A u \in Threads \ {t} : stack'[u] = stack[u]
            /\ UNCHANGED << num_threads, num_thread_creates, total_solutions,
                            accepted, reports, thread_create_mutex,
                            print_puzzle_mutex, find_solutions_done, tpc >>]_vars

\* ctrl_c was set before the driver's call made its entry test: the call has
\* returned without creating the first worker
C14_Witness ==
    /\ ctrl_c
    /\ max_threads >= 1
    /\ tpc[MAIN] = "wait"
    /\ stack[MAIN] = << >>
    /\ num_thread_creates = 0
    /\ total_solutions = 0

(***************************************************************************)
(* The search on larger puzzles.  possible_values and the propagation loop *)
(* are functions of the grid alone, so their inputs are drawn from the     *)
(* grids that the search of a single worker passes through when it is      *)
(* given a puzzle with many unset cells:                                   *)
(*   FileStrip   rows 3..8 of columns 0..3 unset: six solutions, two       *)
(*               branches end in a cell without candidates                 *)
(*   FileRows    the rows 0..3 unset                                       *)
(*   FileSquare  rows 0..5 of columns 3..8 unset: up to six candidates in  *)
(*               a cell, six passes of the propagation loop                *)
(*   FileCorner  rows 3..8 of columns 0..5 unset: three branches end in a  *)
(*               cell without candidates                                   *)
(* The searches of the last three are cut short by max_solutions.  With    *)
(* max_threads = 1 the driver hands the puzzle to the first worker, which  *)
(* runs the whole search; no SIGINT is delivered.                          *)
(***************************************************************************)
FileStrip == FileWithHoles({locidx \in Cells : ROW(locidx) >= 3 /\ COL(locidx) <= 3})

FileRows == FileWithHoles({locidx \in Cells : ROW(locidx) <= 3})

FileSquare == FileWithHoles({locidx \in Cells : ROW(locidx) <= 5 /\ COL(locidx) >= 3})

FileCorner == FileWithHoles({locidx \in Cells : ROW(locidx) >= 3 /\ COL(locidx) <= 5})

\* the puzzle file and max_solutions of each search
GridRuns ==
    {<< FileThree, 0 >>, << FileNoSol, 0 >>, << FileStrip, 0 >>,
     << FileRows, 1 >>, << FileSquare, 2 >>, << FileCorner, 1 >>}

GridInit ==
    /\ max_threads = 1
    /\ print_interval = 1
    /\ \E run \in GridRuns : file = run[1] /\ max_solutions = run[2]
    /\ puzzle = EmptyPuzzle
    /\ total_solutions = 0
    /\ num_threads = 0
    /\ num_thread_creates = 0
    /\ find_solutions_start_us = 0
    /\ find_solutions_end_us = 0
    /\ find_solutions_done = FALSE
    /\ ctrl_c = FALSE
    /\ thread_create_mutex = NOBODY
    /\ print_puzzle_mutex = NOBODY
    /\ now = 1
    /\ tpc = (MAIN :> "sigint_register")
    /\ stack = (MAIN :> << >>)
    /\ accepted = << >>
    /\ reports = << >>
    /\ cap_reached = FALSE

\* the steps of such a run: one worker at most, so the recheck never fails
\* and no count is taken back
GridNext ==
    \/ MainStep
    \/ \E t \in Threads : SigintCheck(t)
    \/ \E t \in Threads : LimitCheck(t)
    \/ \E t \in Threads : FastCheck(t)
    \/ \E t \in Threads : LockCreateMutex(t)
    \/ \E t \in Threads : Recheck(t)
    \/ \E t \in Threads : CreateThread(t)
    \/ \E t \in Threads : UnlockReturn(t)
    \/ \E t \in Threads : Search(t)
    \/ \E t \in Threads : LockPrintMutex(t)
    \/ \E t \in Threads : PrintPuzzle(t)
    \/ \E t \in Threads : ThreadDecrement(t)
    \/ \E t \in Threads : ThreadRecordEnd(t)
    \/ \E t \in Threads : ThreadSetDone(t)

GridSpec == GridInit /\ [][GridNext]_vars

\* the values that the cells sharing the row, the column or the 3x3 grid of
\* locidx hold in the grid value
HeldBySiblings(value, locidx) ==
    {value[li] : li \in {li \in Cells : IsSibling(locidx, li)}} \ {NO_VALUE}

\* the values whose bit is set in the mask pv
BitsOf(pv) == {v \in 0 .. 10 : HasBit(pv, v)}

\* the grids that find_solutions works on: the grid of the innermost call
\* of every thread
GridsAtWork == {Top(t).p : t \in {u \in Threads : stack[u] # << >>}}

\* C15: for every grid and every unset cell, the mask that possible_values
\* returns holds exactly the values 1..9 that none of the 20 siblings of the
\* cell holds, and the count it returns is the number of values in the mask.
C15_MaskIsValuesNoSiblingHolds ==
    /\ \A locidx \in Cells : Len(siblings[locidx]) = NumSiblings
    /\ \A p \in GridsAtWork \cup {puzzle} :
         \A locidx \in Cells :
            p.value[locidx] = NO_VALUE =>
               LET r == possible_values(p, locidx)
               IN  /\ BitsOf(r.pv) = Values \ HeldBySiblings(p.value, locidx)
                   /\ r.num_pv = Cardinality(BitsOf(r.pv))

\* a call is about to search a grid in which the siblings of an unset cell
\* hold three of the nine values, and those of another one hold six
C15_Witness ==
    \E t \in Threads :
       /\ At(t, "search")
       /\ \E locidx \in Cells :
            /\ Top(t).p.value[locidx] = NO_VALUE
            /\ possible_values(Top(t).p, locidx).num_pv = 6
       /\ \E locidx \in Cells :
            /\ Top(t).p.value[locidx] = NO_VALUE
            /\ possible_values(Top(t).p, locidx).num_pv = 3

\* what the propagation loop of every call that is about to run it leaves
Propagated == {Propagate(Top(t)) : t \in ThreadsAt({"search"})}

\* C16: assert(best_num_pv >= 2 && best_num_pv <= 9) never fails.  Whenever
\* the propagation loop ends without return and leaves num_no_value > 0, it
\* has recorded a best cell with 2 to 9 possible values; no run aborts, and
\* every call that is in its for loop over trial_val has such a cell.
C16_AssertNeverFails ==
    /\ tpc[MAIN] # "aborted"
    /\ \A r \in Propagated :
         (~r.returned /\ r.p.num_no_value > 0)
            => (r.best_num_pv >= 2 /\ r.best_num_pv <= 9)
    /\ \A f \in Frames :
         f.pc = "trial" => (f.best_num_pv >= 2 /\ f.best_num_pv <= 9)

\* a call has passed the assert with a best cell of three possible values and
\* is in its for loop, and its trial call is about to run the propagation loop
C16_Witness ==
    /\ \E f \in Frames : f.pc = "trial" /\ f.best_num_pv = 3
    /\ \E r \in Propagated : ~r.returned /\ r.p.num_no_value > 0

\* the number of cells of the grid p that hold NO_VALUE
NumUnset(p) == Cardinality({locidx \in Cells : p.value[locidx] = NO_VALUE})

\* C17: num_no_value of a grid is the number of its cells that hold NO_VALUE:
\* in the grid that read_puzzle leaves, in the grid of every call of
\* find_solutions, made by the driver, by a for loop over trial_val or by a
\* new thread, in the trial grid of every call that is in its for loop, and in
\* the grid that the propagation loop leaves, whether it returns or not.
C17_NumNoValueCountsUnsetCells ==
    /\ puzzle.num_no_value = NumUnset(puzzle)
    /\ \A f \in Frames : f.p.num_no_value = NumUnset(f.p)
    /\ \A r \in Propagated : r.p.num_no_value = NumUnset(r.p)

\* a trial call three levels down is about to propagate a grid that still
\* has unset cells, fewer than the puzzle that was read
C17_Witness ==
    \E t \in ThreadsAt({"search"}) :
       /\ Len(stack[t]) >= 4
       /\ Top(t).p.num_no_value >= 10
       /\ Top(t).p.num_no_value < puzzle.num_no_value - 3
       /\ \E r \in Propagated : r.p.num_no_value < Top(t).p.num_no_value

\* in the grid value, best_locidx is the unset cell of lowest index among
\* those with the fewest possible values, of which it has best_num_pv, and
\* best_pv is the mask of its possible values in that grid
IsBranchCell(value, best_locidx, best_num_pv, best_pv) ==
    LET p == [value |-> value, num_no_value |-> 0]
        unset == {locidx \in Cells : value[locidx] = NO_VALUE}
    IN  /\ best_locidx \in unset
        /\ possible_values(p, best_locidx) = [pv |-> best_pv, num_pv |-> best_num_pv]
        /\ \A locidx \in unset :
             /\ possible_values(p, locidx).num_pv >= best_num_pv
             /\ locidx < best_locidx => possible_values(p, locidx).num_pv > best_num_pv

\* the grid that the propagation loop of the call f left: its trial grid
\* without the trial value
GridBeforeTrial(f) == [f.p.value EXCEPT ![f.best_locidx] = NO_VALUE]

\* what the branch step of a call has chosen, and where its for loop is
BranchChosen ==
    /\ \A r \in Propagated :
         (~r.returned /\ r.p.num_no_value > 0)
            => IsBranchCell(r.p.value, r.best_locidx, r.best_num_pv, r.best_pv)
    /\ \A f \in Frames :
         f.pc = "trial" =>
            /\ IsBranchCell(GridBeforeTrial(f), f.best_locidx, f.best_num_pv,
                            f.best_pv)
            /\ f.p.value[f.best_locidx] \in BitsOf(f.best_pv)
            /\ f.trial_val = f.p.value[f.best_locidx] + 1

\* the values of the mask pv above v
BitsAbove(pv, v) == {w \in BitsOf(pv) : w > v}

\* the smallest member of a set of values that is not empty
Lowest(S) == CHOOSE v \in S : \A w \in S : v <= w

\* C18: the cell that a call branches on is the unset cell of lowest index
\* among those with the fewest possible values in the grid that the propagation
\* loop left, best_pv is the mask of its possible values in that very grid, and
\* the for loop calls find_solutions with exactly the values of best_pv, in
\* increasing order: it begins with the smallest, goes on from a value to the
\* next one above it, and ends only when none is left.
C18_BranchCellAndTrialOrder ==
    [][/\ BranchChosen
       /\ \A t \in Threads : \A i \in DOMAIN stack[t] :
            LET f == stack[t][i]
                kept == i \in DOMAIN stack'[t] /\ stack'[t][i].pc = "trial"
                g == stack'[t][i]
            IN  /\ (f.pc = "search" /\ kept)
                     => g.p.value[g.best_locidx] = Lowest(BitsOf(g.best_pv))
                /\ (f.pc = "trial" /\ kept)
                     => /\ g.best_locidx = f.best_locidx
                        /\ g.best_pv = f.best_pv
                        /\ GridBeforeTrial(g) = GridBeforeTrial(f)
                        /\ \/ g.p.value[g.best_locidx] = f.p.value[f.best_locidx]
                           \/ /\ BitsAbove(f.best_pv, f.p.value[f.best_locidx]) # {}
                              /\ g.p.value[g.best_locidx] =
                                   Lowest(BitsAbove(f.best_pv,
                                                    f.p.value[f.best_locidx]))
                /\ (f.pc = "trial" /\ ~kept /\ Alive')
                     => BitsAbove(f.best_pv, f.p.value[f.best_locidx]) = {}]_vars

\* a call is at the second value of a mask of three, and its branch cell won
\* a tie against an unset cell of higher index
C18_Witness ==
    \E f \in Frames :
       /\ f.pc = "trial"
       /\ f.best_num_pv = 3
       /\ Cardinality(BitsAbove(f.best_pv, f.p.value[f.best_locidx])) = 1
       /\ \E locidx \in Cells :
            /\ locidx > f.best_locidx
            /\ GridBeforeTrial(f)[locidx] = NO_VALUE
            /\ possible_values([value |-> GridBeforeTrial(f), num_no_value |-> 0],
                               locidx).num_pv = 3

\* every unset cell of the grid value has two possible values or more
NoForcedCell(value) ==
    \A locidx \in Cells :
       value[locidx] = NO_VALUE
          => possible_values([value |-> value, num_no_value |-> 0], locidx).num_pv >= 2

\* the scan state that the propagation loop of the call f starts from
ScanStart(f) ==
    [p |-> f.p, best_num_pv |-> f.best_num_pv, best_locidx |-> f.best_locidx,
     best_pv |-> f.best_pv, values_have_been_set |-> FALSE, returned |-> FALSE]

\* C19: when the propagation loop ends without return, every cell that is
\* still unset has at least two possible values, none has one or none; and
\* the loop ends: it makes at most one pass more than the grid had unset cells.
C19_PropagationReachesFixpoint ==
    /\ \A t \in ThreadsAt({"search"}) :
         /\ ~Propagate(Top(t)).returned => NoForcedCell(Propagate(Top(t)).p.value)
         /\ PropagatePasses(ScanStart(Top(t))) <= NumUnset(Top(t).p) + 1
    /\ \A f \in Frames : f.pc = "trial" => NoForcedCell(GridBeforeTrial(f))

\* a propagation loop is about to make four passes or more, to set ten cells or
\* more and to end without return in a grid with unset cells
C19_Witness ==
    \E t \in ThreadsAt({"search"}) :
       /\ PropagatePasses(ScanStart(Top(t))) >= 4
       /\ ~Propagate(Top(t)).returned
       /\ Propagate(Top(t)).p.num_no_value > 0
       /\ Propagate(Top(t)).p.num_no_value <= Top(t).p.num_no_value - 10

\* the places of a call between the fast check and the return after
\* pthread_create
ForkDecision == {"fast_check", "lock", "recheck", "create", "unlock_return",
                 "unlock_continue"}

\* new_thread is true in the first call of every worker and nowhere else,
\* and a call with new_thread true is never at the fork decision
NewThreadIsFirstCallOfWorker ==
    \A t \in Threads : \A i \in DOMAIN stack[t] :
       /\ stack[t][i].new_thread <=> (t # MAIN /\ i = 1)
       /\ stack[t][i].new_thread => stack[t][i].pc \notin ForkDecision

\* C20: the fork decision is skipped by the first call of a worker
\* (new_thread true) and by no other call.  Once past the two entry tests
\* that every call makes, the first call of a worker goes straight to the
\* search of its own copy of the grid, while the call of the driver and every
\* call made by a for loop over trial_val, in a worker too, goes to the fast
\* check, and reaches the search only when the fast check or the recheck
\* fails.  A call that creates a thread hands it a copy of its grid and
\* returns without searching it.
C20_ForkDecisionSkippedOnlyByNewThread ==
    [][/\ NewThreadIsFirstCallOfWorker
       /\ \A t \in Threads :
            (stack[t] # << >> /\ stack'[t] # stack[t]) =>
               LET n == Len(stack[t])
                   f == stack[t][n]
                   same == Len(stack'[t]) >= n
                   g == stack'[t][n]
               IN  /\ ( /\ f.pc \in {"sigint_check", "limit_check"}
                        /\ same
                        /\ g.pc \notin {"sigint_check", "limit_check"} )
                        => g.pc = IF f.new_thread THEN "search" ELSE "fast_check"
                   /\ (f.pc # "search" /\ same /\ g.pc = "search")
                        => \/ f.new_thread
                           \/ f.pc = "fast_check" /\ ~(num_threads < max_threads)
                           \/ f.pc = "unlock_continue"
                   /\ f.pc = "create"
                        => /\ same /\ g.pc = "unlock_return"
                           /\ \E new \in Threads' \ Threads :
                                /\ Threads' = Threads \cup {new}
                                /\ stack'[new] = << NewFrame(f.p, TRUE) >>
                   /\ f.pc = "unlock_return" => ReturnsAtOnce(t)]_vars

\* a call made by the for loop of a worker has created a thread and is about
\* to return, and the first call of the new worker, past its entry tests, is
\* about to search the copy of that grid
C20_Witness ==
    \E t \in Workers : \E u \in Workers \ {t} :
       /\ At(u, "unlock_return")
       /\ Len(stack[u]) >= 2
       /\ Len(stack[t]) = 1
       /\ Top(t).new_thread
       /\ Top(t).pc = "search"
       /\ Top(t).p = Top(u).p

\* the calls that hold a sequence number: the count of the call is made and
\* the call has not returned
Counted == {f \in Frames : f.pc \in {"rollback", "print_lock", "print"}}

\* with a limit on the solutions, no more solutions than the limit have kept
\* their count, print_puzzle has been called and is being called with
\* sequence numbers up to the limit only, and the calls that are about to
\* take their count back are the ones whose sequence number is over the limit
CapKept ==
    max_solutions # MAX_SOLUTIONS_INFINITE
      => /\ Len(accepted) <= max_solutions
         /\ \A i \in DOMAIN accepted : accepted[i].ts <= max_solutions
         /\ \A i \in DOMAIN reports : reports[i].ts <= max_solutions
         /\ \A f \in Counted :
              f.pc = "rollback" <=> f.ts > max_solutions

\* C21: with a limit C on the solutions, under every interleaving, at most C
\* solutions keep their count and print_puzzle is never called with a
\* sequence number above C: an increment that brings total_solutions above C
\* leads the call to the rollback and adds nothing to the solutions that
\* kept their count, and the rollback takes one off total_solutions and
\* returns without a call of print_puzzle.
C21_CapBoundsAcceptedAndReported ==
    [][/\ (max_solutions # MAX_SOLUTIONS_INFINITE
             /\ total_solutions' > total_solutions
             /\ total_solutions' > max_solutions)
            => /\ accepted' = accepted
               /\ reports' = reports
               /\ \E t \in Threads :
                    /\ At(t, "search")
                    /\ stack'[t] # << >>
                    /\ stack'[t][Len(stack'[t])].pc = "rollback"
                    /\ stack'[t][Len(stack'[t])].ts = total_solutions'
       /\ \A t \in Threads :
            (At(t, "rollback") /\ stack'[t] # stack[t])
              => /\ total_solutions' = total_solutions - 1
                 /\ accepted' = accepted
                 /\ reports' = reports
                 /\ \/ stack'[t] = << >>
                    \/ stack'[t][Len(stack'[t])].pc = "sigint_check"
       /\ CapKept']_vars

\* with a limit of one solution, the first solution has been printed and a
\* call whose increment gave the sequence number 3 is about to take it back
C21_Witness ==
    /\ max_solutions = 1
    /\ Len(accepted) = 1
    /\ \E i \in DOMAIN reports : reports[i].ts = 1
    /\ \E t \in ThreadsAt({"rollback"}) : Top(t).ts = 3

\* li shares the row, the column or the 3x3 block of locidx
SharesUnit(locidx, li) ==
    \/ li \div 9 = locidx \div 9
    \/ li % 9 = locidx % 9
    \/ (li \div 27 = locidx \div 27 /\ (li % 9) \div 3 = (locidx % 9) \div 3)

\* every cell has 20 siblings, all different, none of them the cell itself,
\* each in the row, the column or the 3x3 block of the cell, and a cell is
\* a sibling of each of its siblings
SiblingTableWellFormed ==
    \A locidx \in Cells :
       /\ Len(siblings[locidx]) = 20
       /\ Cardinality({siblings[locidx][k] : k \in DOMAIN siblings[locidx]}) = 20
       /\ \A k \in DOMAIN siblings[locidx] :
            LET li == siblings[locidx][k]
            IN  /\ li \in Cells
                /\ li # locidx
                /\ SharesUnit(locidx, li)
                /\ \E j \in DOMAIN siblings[li] : siblings[li][j] = locidx

\* C22: initialize gives every one of the 81 cells exactly 20 distinct
\* siblings, none of them the cell itself, each sharing its row, its column
\* or its 3x3 block, the relation is symmetric, and assert(max_sib == 20)
\* holds for every cell, so that initialize goes on to read_puzzle.
C22_EveryCellHasTwentySiblings ==
    [][(tpc[MAIN] = "initialize" /\ tpc'[MAIN] # "initialize")
         => /\ tpc'[MAIN] = "read_puzzle"
            /\ \A locidx \in Cells : max_sib(locidx) = 20
            /\ SiblingTableWellFormed]_vars

\* initialize has returned, and the siblings of the corner cell 0 are the
\* rest of row 0, of column 0 and of the first block, in increasing order
C22_Witness ==
    /\ tpc[MAIN] = "read_puzzle"
    /\ siblings[0] = << 1, 2, 3, 4, 5, 6, 7, 8, 9, 10, 11, 18, 19, 20,
                        27, 36, 45, 54, 63, 72 >>
    /\ max_sib(80) = 20

=============================================================================
